---- MODULE Spec2Model ----
(***************************************************************************)
(* Model of the ESP32-C6 WiFi scanner firmware                             *)
(* (src/src/esp32_c6_wifi_functional.ino).                                 *)
(*                                                                         *)
(* Two execution contexts: the foreground Arduino loop() (serial command   *)
(* dispatcher, throttled status line) and the promiscuous-mode receive     *)
(* callback packetSnifferCallback, which the WiFi driver task runs for     *)
(* every received frame.  The ESP32-C6 has one application core and the    *)
(* driver task outranks the loop task, so a callback run is atomic with    *)
(* respect to the foreground, while the foreground can be preempted        *)
(* between any two of its accesses to the shared counters.  The foreground *)
(* is therefore modelled with a program counter `pc` that advances one     *)
(* shared access at a time.                                                *)
(***************************************************************************)
EXTENDS Integers, Sequences, FiniteSets, TLC

(***************************************************************************)
(* Program constants                                                       *)
(***************************************************************************)
MAX_NETWORKS == 50
CONNECT_ATTEMPTS == 20
STATUS_INTERVAL_MS == 2000
SETUP_DELAY_MS == 1000
WIFI_SCAN_FAILED == -2
MIN_CHANNEL == 1
MAX_CHANNEL == 14
BASE_FREQ_MHZ == 2412
CHANNEL_STEP_MHZ == 5
WIFI6_RSSI_DBM == -50

(***************************************************************************)
(* Bounds of the model                                                     *)
(***************************************************************************)
\* Frames counted in one monitoring session (caps the uint32_t counters).
MaxFrames == 1
\* The number of networks a sweep finds when it finds fewer than the registry
\* holds.
FewNetworks == 2
\* Granularity of the clock, in milliseconds per tick.
TickMs == 2500

(***************************************************************************)
(* Arduino String operations, on sequences of one-character strings        *)
(***************************************************************************)
UpperCase == <<"A", "B", "C", "D", "E", "F", "G", "H", "I", "J", "K", "L", "M",
               "N", "O", "P", "Q", "R", "S", "T", "U", "V", "W", "X", "Y", "Z">>
LowerCase == <<"a", "b", "c", "d", "e", "f", "g", "h", "i", "j", "k", "l", "m",
               "n", "o", "p", "q", "r", "s", "t", "u", "v", "w", "x", "y", "z">>
Digits == <<"0", "1", "2", "3", "4", "5", "6", "7", "8", "9">>

\* tolower() on one character.
ToLowerChar(c) ==
    IF \E i \in 1..Len(UpperCase) : UpperCase[i] = c
    THEN LowerCase[CHOOSE i \in 1..Len(UpperCase) : UpperCase[i] = c]
    ELSE c

\* String::toLowerCase().
ToLowerCase(s) == [i \in 1..Len(s) |-> ToLowerChar(s[i])]

\* isspace().
IsSpace(c) == c \in {" ", "\t", "\n", "\r"}

\* String::trim(): drops leading and trailing white space.
Trim(s) ==
    LET keep == {i \in 1..Len(s) : ~IsSpace(s[i])}
    IN  IF keep = {} THEN <<>>
        ELSE LET first == CHOOSE i \in keep : \A j \in keep : i <= j
                 last  == CHOOSE i \in keep : \A j \in keep : j <= i
             IN  SubSeq(s, first, last)

\* String::startsWith(prefix).
StartsWith(s, prefix) ==
    /\ Len(s) >= Len(prefix)
    /\ SubSeq(s, 1, Len(prefix)) = prefix

\* String::substring(from) and substring(from, to), 0-based, `to` exclusive.
SubstringFrom(s, from) == IF from >= Len(s) THEN <<>> ELSE SubSeq(s, from + 1, Len(s))
Substring(s, from, to) ==
    LET t == IF to > Len(s) THEN Len(s) ELSE to
    IN  IF from >= t THEN <<>> ELSE SubSeq(s, from + 1, t)

\* String::indexOf(" "): 0-based index of the first space, -1 if none.
IndexOfSpace(s) ==
    IF \E i \in 1..Len(s) : s[i] = " "
    THEN (CHOOSE i \in 1..Len(s) : s[i] = " " /\ \A j \in 1..(i - 1) : s[j] # " ") - 1
    ELSE -1

IsDigit(c) == \E d \in 1..Len(Digits) : Digits[d] = c
DigitValue(c) == (CHOOSE d \in 1..Len(Digits) : Digits[d] = c) - 1

\* The digit loop of strtol(): accumulates decimal digits from position i,
\* stops at the first non-digit, saturates at LONG_MAX (2^31 - 1 on this 32-bit target).
RECURSIVE ParseDigits(_, _, _)
ParseDigits(s, i, acc) ==
    IF i > Len(s) \/ ~IsDigit(s[i]) THEN acc
    ELSE LET d == DigitValue(s[i])
         IN  IF acc > (2147483647 - d) \div 10
             THEN 2147483647
             ELSE ParseDigits(s, i + 1, acc * 10 + d)

\* String::toInt() is atol(): skips white space, takes an optional sign, reads
\* digits; 0 when no digit follows.
ToInt(s) ==
    LET lead  == {i \in 1..Len(s) : ~IsSpace(s[i])}
        start == IF lead = {} THEN Len(s) + 1
                 ELSE CHOOSE i \in lead : \A j \in lead : i <= j
        neg   == start <= Len(s) /\ s[start] = "-"
        sign  == start <= Len(s) /\ s[start] \in {"-", "+"}
        mag   == ParseDigits(s, IF sign THEN start + 1 ELSE start, 0)
    IN  IF neg THEN 0 - mag ELSE mag

\* Command words of processCommand, as character sequences.
W_help == <<"h", "e", "l", "p">>
W_h == <<"h">>
W_scan == <<"s", "c", "a", "n">>
W_s == <<"s">>
W_disconnect == <<"d", "i", "s", "c", "o", "n", "n", "e", "c", "t">>
W_dc == <<"d", "c">>
W_monitor == <<"m", "o", "n", "i", "t", "o", "r">>
W_m == <<"m">>
W_stop == <<"s", "t", "o", "p">>
W_x == <<"x">>
W_networks == <<"n", "e", "t", "w", "o", "r", "k", "s">>
W_n == <<"n">>
W_status == <<"s", "t", "a", "t", "u", "s">>
W_st == <<"s", "t">>
W_clear == <<"c", "l", "e", "a", "r">>
W_cls == <<"c", "l", "s">>
W_info == <<"i", "n", "f", "o">>
W_i == <<"i">>
W_export == <<"e", "x", "p", "o", "r", "t">>
W_e == <<"e">>
W_reset == <<"r", "e", "s", "e", "t">>
W_r == <<"r">>
P_connect_ == <<"c", "o", "n", "n", "e", "c", "t", " ">>
P_monitor_ == <<"m", "o", "n", "i", "t", "o", "r", " ">>
P_channel_ == <<"c", "h", "a", "n", "n", "e", "l", " ">>

\* The input lines the operator types (Serial, read by loop()).
Lines ==
    { <<"h", "e", "l", "p">>
    , <<"h">>
    , <<"s", "c", "a", "n">>
    , <<"s">>
    , <<"d", "i", "s", "c", "o", "n", "n", "e", "c", "t">>
    , <<"d", "c">>
    , <<"m", "o", "n", "i", "t", "o", "r">>
    , <<"m">>
    , <<"s", "t", "o", "p">>
    , <<"x">>
    , <<"n", "e", "t", "w", "o", "r", "k", "s">>
    , <<"n">>
    , <<"s", "t", "a", "t", "u", "s">>
    , <<"s", "t">>
    , <<"c", "l", "e", "a", "r">>
    , <<"c", "l", "s">>
    , <<"i", "n", "f", "o">>
    , <<"i">>
    , <<"e", "x", "p", "o", "r", "t">>
    , <<"e">>
    , <<"r", "e", "s", "e", "t">>
    , <<"r">>
    , <<"m", "o", "n", "i", "t", "o", "r", " ", "6">>
    , <<"m", "o", "n", "i", "t", "o", "r", " ", "1", "5">>
    , <<"m", "o", "n", "i", "t", "o", "r", " ", "0">>
    , <<"m", "o", "n", "i", "t", "o", "r", " ", "-", "1">>
    , <<"m", "o", "n", "i", "t", "o", "r", " ", "x">>
    , <<"m", "o", "n", "i", "t", "o", "r", " ", "6", "x">>
    , <<"M", "O", "N", "I", "T", "O", "R", " ", "6">>
    , <<" ", "m", "o", "n", "i", "t", "o", "r", " ", "6", " ">>
    , <<"m", "o", "n", "i", "t", "o", "r", " ", " ", "6">>
    , <<"c", "h", "a", "n", "n", "e", "l", " ", "6">>
    , <<"c", "h", "a", "n", "n", "e", "l", " ", "1", "5">>
    , <<"c", "h", "a", "n", "n", "e", "l", " ", "0">>
    , <<"c", "h", "a", "n", "n", "e", "l", " ", "-", "3">>
    , <<"c", "h", "a", "n", "n", "e", "l", " ", "a", "b", "c">>
    , <<"c", "h", "a", "n", "n", "e", "l", " ", "4", "2", "9", "4", "9", "6", "7", "2", "9", "7">>
    , <<"c", "h", "a", "n", "n", "e", "l">>
    , <<"c", "h", "a", "n", "n", "e", "l", " ", "+", "6">>
    , <<"c", "o", "n", "n", "e", "c", "t", " ", "n", "e", "t", " ", "p", "w">>
    , <<"c", "o", "n", "n", "e", "c", "t", " ", "N", "e", "t", " ", "P", "w">>
    , <<"c", "o", "n", "n", "e", "c", "t", " ", "n", "e", "t">>
    , <<"c", "o", "n", "n", "e", "c", "t">>
    , <<"c", "o", "n", "n", "e", "c", "t", " ", " ", "p", "w">>
    , <<"f", "o", "o">>
    , <<" ", " ", " ">>
    }

(***************************************************************************)
(* State                                                                   *)
(***************************************************************************)
VARIABLES
    \* struct ScannerState scanner_state
    scanning_active, monitoring_active, connected_to_wifi, current_channel,
    packet_count, data_packets, mgmt_packets, ctrl_packets, connected_ssid,
    \* NetworkInfo detected_networks[MAX_NETWORKS] (each slot as the number of the
    \* network it holds, see NetworkInfo); int network_count
    detected_networks, network_count,
    \* the radio, as seen through the WiFi / esp_wifi API
    wifi_mode,       \* "NULL" or "STA"                  (WiFi.mode)
    link,            \* "down", "joining" or "up"        (WiFi.status)
    sta_ssid,        \* credentials given to WiFi.begin
    sta_password,
    radio_channel,   \* esp_wifi_set_channel
    promiscuous,     \* esp_wifi_set_promiscuous
    \* loop(): millis() - last_status_update, held once it exceeds the interval
    elapsed,
    \* the foreground's position and the locals that live across its steps
    pc, channel, ssid, attempts, rd,
    \* Serial output: the headline of the command or status update last begun
    \* ("" is the blank line processCommand prints first), and the counters that
    \* command or update has reported (the final statistics of a stopped capture
    \* stay until the next start)
    response, report,
    \* history: the frames the callback has counted since the last accepted start
    \* of monitoring, cleared when monitoring stops
    sess

scanner_vars == <<scanning_active, monitoring_active, connected_to_wifi, current_channel,
                  packet_count, data_packets, mgmt_packets, ctrl_packets, connected_ssid>>
counter_vars == <<packet_count, data_packets, mgmt_packets, ctrl_packets>>
registry_vars == <<detected_networks, network_count>>
radio_vars == <<wifi_mode, link, sta_ssid, sta_password, radio_channel, promiscuous>>
local_vars == <<channel, ssid, attempts, rd>>
vars == <<scanner_vars, registry_vars, radio_vars, elapsed, pc, local_vars,
          response, report, sess>>

\* wifi_promiscuous_pkt_type_t
FrameTypes == {"WIFI_PKT_MGMT", "WIFI_PKT_CTRL", "WIFI_PKT_DATA", "WIFI_PKT_MISC"}

ZeroCounts == [total |-> 0, mgmt |-> 0, data |-> 0, ctrl |-> 0]
NoRead == [kind |-> "none", todo |-> <<>>, vals |-> ZeroCounts]
NoReport == [kind |-> "none", vals |-> ZeroCounts, freq |-> 0]

\* A zero-initialised NetworkInfo (the array is a global).
EmptyNetwork ==
    [ssid |-> <<>>, bssid |-> 0, channel |-> 0, rssi |-> 0, encryption |-> 0,
     is_wifi6 |-> FALSE, is_hidden |-> FALSE]

\* The four counters of ScannerState as one record.
Counters ==
    [total |-> packet_count, mgmt |-> mgmt_packets, data |-> data_packets,
     ctrl |-> ctrl_packets]

\* The session mode of the spec, read off the three flags of ScannerState.
Mode ==
    IF monitoring_active THEN "Monitoring"
    ELSE IF connected_to_wifi THEN "Connected"
    ELSE IF scanning_active THEN "Scanning"
    ELSE "Idle"

\* 2412 + (channel - 1) * 5
FrequencyMHz(c) == BASE_FREQ_MHZ + (c - 1) * CHANNEL_STEP_MHZ

\* The state after setup(): the member initialisers of ScannerState, the
\* zeroed globals, WiFi.mode(WIFI_MODE_NULL); delay(1000) has passed and
\* last_status_update is 0.
Init ==
    /\ scanning_active = FALSE
    /\ monitoring_active = FALSE
    /\ connected_to_wifi = FALSE
    /\ current_channel = 1
    /\ packet_count = 0
    /\ data_packets = 0
    /\ mgmt_packets = 0
    /\ ctrl_packets = 0
    /\ connected_ssid = <<>>
    /\ detected_networks = [i \in 0..(MAX_NETWORKS - 1) |-> 0]
    /\ network_count = 0
    /\ wifi_mode = "NULL"
    /\ link = "down"
    /\ sta_ssid = <<>>
    /\ sta_password = <<>>
    /\ radio_channel = 1
    /\ promiscuous = FALSE
    /\ elapsed = SETUP_DELAY_MS
    /\ pc = "loop"
    /\ channel = 0
    /\ ssid = <<>>
    /\ attempts = 0
    /\ rd = NoRead
    /\ response = "banner"
    /\ report = NoReport
    /\ sess = ZeroCounts

(***************************************************************************)
(* The radio and the clock (environment)                                   *)
(***************************************************************************)
\* What WiFi.scanNetworks() can return: a failure code or a number of
\* networks, below, at and above the capacity of the registry.
ScanCounts == {WIFI_SCAN_FAILED, 0, FewNetworks, MAX_NETWORKS + 1}

\* The networks on the air, numbered from 1: what WiFi.SSID(i),
\* WiFi.BSSIDstr(i), WiFi.channel(i), WiFi.RSSI(i) and WiFi.encryptionType(i)
\* return for the network with number k.
AccessPoint(k) ==
    [ssid       |-> IF k % 3 = 0 THEN <<>> ELSE <<"n", Digits[(k % 10) + 1]>>,
     bssid      |-> k,
     channel    |-> MIN_CHANNEL + (k % MAX_CHANNEL),
     rssi       |-> IF k % 2 = 0 THEN -45 ELSE -70,
     encryption |-> k % 9]

\* The driver's scan list of a sweep that found n networks: entry i (from 0)
\* is network n - i, so that sweeps with different results list different
\* networks in the same place.
ScanEntry(i, n) == n - i

\* The station started by WiFi.begin() associates.
RadioJoin ==
    /\ link = "joining"
    /\ link' = "up"
    /\ UNCHANGED <<scanner_vars, registry_vars, wifi_mode, sta_ssid, sta_password,
                   radio_channel, promiscuous, elapsed, pc, local_vars,
                   response, report, sess>>

\* The association is lost; the station keeps trying to rejoin.
RadioDrop ==
    /\ link = "up"
    /\ link' = "joining"
    /\ UNCHANGED <<scanner_vars, registry_vars, wifi_mode, sta_ssid, sta_password,
                   radio_channel, promiscuous, elapsed, pc, local_vars,
                   response, report, sess>>

\* millis() advances.  Beyond the interval the exact value no longer matters
\* to loop(), and the model holds it at STATUS_INTERVAL_MS + 1.
Tick ==
    /\ elapsed <= STATUS_INTERVAL_MS
    /\ elapsed' = IF elapsed + TickMs > STATUS_INTERVAL_MS
                  THEN STATUS_INTERVAL_MS + 1
                  ELSE elapsed + TickMs
    /\ UNCHANGED <<scanner_vars, registry_vars, radio_vars, pc, local_vars, response,
                   report, sess>>

(***************************************************************************)
(* packetSnifferCallback                                                   *)
(***************************************************************************)
\* Fault model: a callback without the early return.
CallbackAlwaysCounts == TRUE

\* The early return of the callback.
CallbackCounts == monitoring_active

Bump(counts, type) ==
    [total |-> counts.total + 1,
     mgmt  |-> counts.mgmt + (IF type = "WIFI_PKT_MGMT" THEN 1 ELSE 0),
     data  |-> counts.data + (IF type = "WIFI_PKT_DATA" THEN 1 ELSE 0),
     ctrl  |-> counts.ctrl + (IF type = "WIFI_PKT_CTRL" THEN 1 ELSE 0)]

packetSnifferCallback(type) ==
    IF ~CallbackCounts
    THEN UNCHANGED <<counter_vars, sess>>
    ELSE /\ packet_count' = packet_count + 1
         /\ mgmt_packets' = IF type = "WIFI_PKT_MGMT" THEN mgmt_packets + 1 ELSE mgmt_packets
         /\ data_packets' = IF type = "WIFI_PKT_DATA" THEN data_packets + 1 ELSE data_packets
         /\ ctrl_packets' = IF type = "WIFI_PKT_CTRL" THEN ctrl_packets + 1 ELSE ctrl_packets
         /\ sess' = Bump(sess, type)

\* The driver task runs the callback for one frame: a frame received in
\* promiscuous mode, or one that was already queued when the mode was switched
\* off.  The run is atomic with respect to the foreground.
Deliver(type) ==
    /\ sess.total < MaxFrames
    /\ packetSnifferCallback(type)
    /\ UNCHANGED <<scanning_active, monitoring_active, connected_to_wifi, current_channel,
                   connected_ssid, registry_vars, wifi_mode, link, sta_ssid, sta_password,
                   radio_channel, promiscuous, elapsed, pc, local_vars, response, report>>

(***************************************************************************)
(* Foreground: the operations behind the commands                          *)
(***************************************************************************)
\* The report that stays when the next command or status update begins: the
\* final statistics of a stopped capture stay until the next start, any other
\* report belongs to the command that printed it.
KeptReport == IF report.kind = "final" THEN report ELSE NoReport

\* A command that only prints.
Output(msg) ==
    /\ response' = msg
    /\ report' = KeptReport
    /\ UNCHANGED <<scanner_vars, registry_vars, radio_vars, elapsed, pc, local_vars,
                   sess>>

\* The orders in which one report reads the counters.  stopPacketMonitoring and
\* showStatus read them in separate statements.  updateMonitoringStatus reads
\* them as operands of one chain of operator+, whose evaluation order the
\* language leaves to the compiler: left to right or right to left.
StatementOrder == <<"total", "mgmt", "data", "ctrl">>
OperandOrders == {<<"total", "mgmt", "data", "ctrl">>, <<"ctrl", "data", "mgmt", "total">>}

CounterValue(name) ==
    CASE name = "total" -> packet_count
      [] name = "mgmt"  -> mgmt_packets
      [] name = "data"  -> data_packets
      [] name = "ctrl"  -> ctrl_packets

\* checkWiFi6Support(): the signal-strength heuristic.
checkWiFi6Support(rssi) == rssi > WIFI6_RSSI_DBM

\* The NetworkInfo that startNetworkScan builds from network k.  A slot of
\* detected_networks holds the number of the network it was filled from (0: the
\* zero-initialised slot), and this is the record that stands there.
NetworkInfo(k) ==
    IF k = 0 THEN EmptyNetwork
    ELSE LET ap == AccessPoint(k)
         IN  [ssid       |-> ap.ssid,
              bssid      |-> ap.bssid,
              channel    |-> ap.channel,
              rssi       |-> ap.rssi,
              encryption |-> ap.encryption,
              is_wifi6   |-> checkWiFi6Support(ap.rssi),
              is_hidden  |-> Len(ap.ssid) = 0]

\* Fault model: a fill loop that does not look at the capacity.
ScanLoopNoCapacity(i, n) == i < n

\* The condition of the for loop of startNetworkScan.
ScanLoopContinues(i, n) == i < n /\ i < MAX_NETWORKS

\* The for loop of startNetworkScan: st = [nets, count] after the iterations
\* from index i on.
RECURSIVE ScanLoop(_, _, _)
ScanLoop(i, n, st) ==
    IF ~ScanLoopContinues(i, n) THEN st
    ELSE ScanLoop(i + 1, n,
                  [nets  |-> [st.nets EXCEPT ![i] = ScanEntry(i, n)],
                   count |-> st.count + 1])

\* Fault model: a scan that keeps the size of the registry it finds.
ScanCountKept == network_count

\* network_count = 0; before the sweep.
ScanCountStart == 0

\* Fault model: startNetworkScan without its guard.
ScanNeverBlocked == FALSE

\* The guard of startNetworkScan against a running capture.
ScanBlocked == monitoring_active

\* startNetworkScan(), n being what WiFi.scanNetworks() returns.
startNetworkScan(n) ==
    IF ScanBlocked
    THEN Output("Stop packet monitoring before scanning networks.")
    ELSE LET st == ScanLoop(0, n, [nets |-> detected_networks, count |-> ScanCountStart])
         IN  /\ wifi_mode' = "STA"
             /\ response' = IF n = 0 THEN "No networks found." ELSE "Scan complete."
             /\ report' = KeptReport
             /\ UNCHANGED <<scanner_vars, link, sta_ssid, sta_password, radio_channel,
                            promiscuous, elapsed, pc, local_vars, sess>>
             /\ detected_networks' = st.nets
             /\ network_count' = st.count

\* WiFi.begin(): a station that is up with the same credentials stays up,
\* otherwise the station (re)starts joining.
BeginLink(s, p) ==
    IF link = "up" /\ sta_ssid = s /\ sta_password = p THEN "up" ELSE "joining"

\* The guard of connectToWiFi against a running capture.
ConnectBlocked == monitoring_active

\* connectToWiFi(), up to the retry loop.
connectToWiFi(s, p) ==
    IF ConnectBlocked
    THEN Output("Stop packet monitoring before connecting to WiFi.")
    ELSE /\ wifi_mode' = "STA"
         /\ link' = BeginLink(s, p)
         /\ sta_ssid' = s
         /\ sta_password' = p
         /\ ssid' = s
         /\ attempts' = 0
         /\ response' = "Connecting to"
         /\ pc' = "ctw_385"
         /\ report' = KeptReport
         /\ UNCHANGED <<scanner_vars, registry_vars, radio_channel, promiscuous, elapsed, channel, rd, sess>>

\* Fault model: a retry loop without its attempt budget.
ConnectLoopUnbounded == link # "up"

\* The loop condition of connectToWiFi: WiFi.status() != WL_CONNECTED &&
\* attempts < 20.  The status is polled first, on every evaluation.
ConnectLoopContinues == link # "up" /\ attempts < CONNECT_ATTEMPTS

\* One evaluation of the loop condition of connectToWiFi (line 385), and the
\* body (delay, attempts++) when it holds.  At pc = "ctw_385" attempts is the
\* number of polls that have failed so far in this connect.
ConnectPoll ==
    /\ pc = "ctw_385"
    /\ IF ConnectLoopContinues
       THEN /\ attempts' = attempts + 1
            /\ pc' = pc
       ELSE /\ attempts' = attempts
            /\ pc' = "ctw_391"
    /\ UNCHANGED <<scanner_vars, registry_vars, radio_vars, elapsed, channel, ssid, rd,
                   response, report, sess>>

\* What connectToWiFi records once WiFi.status() is WL_CONNECTED.
ConnectSuccess ==
    /\ connected_to_wifi' = TRUE
    /\ connected_ssid' = ssid
    /\ response' = "Connection successful!"

\* What connectToWiFi does when the last WiFi.status() is not WL_CONNECTED.
ConnectFailure ==
    /\ UNCHANGED <<connected_to_wifi, connected_ssid>>
    /\ response' = "Connection failed!"

\* The final status check of connectToWiFi (line 391).
ConnectFinish ==
    /\ pc = "ctw_391"
    /\ IF link = "up" THEN ConnectSuccess ELSE ConnectFailure
    /\ pc' = "loop"
    /\ ssid' = <<>>
    /\ attempts' = 0
    /\ UNCHANGED <<scanning_active, monitoring_active, current_channel, counter_vars,
                   registry_vars, radio_vars, elapsed, channel, rd, report, sess>>

\* Fault model: a disconnect that does not look at connected_to_wifi.
disconnectWiFiUnguarded ==
    /\ link' = "down"
    /\ connected_to_wifi' = FALSE
    /\ connected_ssid' = <<>>
    /\ response' = "Disconnected from WiFi network."
    /\ report' = KeptReport
    /\ UNCHANGED <<scanning_active, monitoring_active, current_channel, counter_vars,
                   registry_vars, wifi_mode, sta_ssid, sta_password, radio_channel,
                   promiscuous, elapsed, pc, local_vars, sess>>

\* Fault model: a disconnect that also empties the registry.
disconnectWiFiClearing ==
    IF connected_to_wifi
    THEN /\ link' = "down"
         /\ connected_to_wifi' = FALSE
         /\ connected_ssid' = <<>>
         /\ network_count' = 0
         /\ response' = "Disconnected from WiFi network."
         /\ report' = KeptReport
         /\ UNCHANGED <<scanning_active, monitoring_active, current_channel, counter_vars,
                        detected_networks, wifi_mode, sta_ssid, sta_password, radio_channel,
                        promiscuous, elapsed, pc, local_vars, sess>>
    ELSE Output("Not connected to any WiFi network.")

\* Fault model: a disconnect that leaves connected_ssid as it is.
disconnectWiFiKeepsSsid ==
    IF connected_to_wifi
    THEN /\ link' = "down"
         /\ connected_to_wifi' = FALSE
         /\ response' = "Disconnected from WiFi network."
         /\ report' = KeptReport
         /\ UNCHANGED <<scanning_active, monitoring_active, current_channel, counter_vars,
                        connected_ssid, registry_vars, wifi_mode, sta_ssid, sta_password,
                        radio_channel, promiscuous, elapsed, pc, local_vars, sess>>
    ELSE Output("Not connected to any WiFi network.")

\* disconnectWiFi().
disconnectWiFi ==
    IF connected_to_wifi
    THEN /\ link' = "down"
         /\ connected_to_wifi' = FALSE
         /\ connected_ssid' = <<>>
         /\ response' = "Disconnected from WiFi network."
         /\ report' = KeptReport
         /\ UNCHANGED <<scanning_active, monitoring_active, current_channel, counter_vars,
                        registry_vars, wifi_mode, sta_ssid, sta_password, radio_channel,
                        promiscuous, elapsed, pc, local_vars, sess>>
    ELSE Output("Not connected to any WiFi network.")

\* Fault model: startPacketMonitoring without its guard.
MonitorNeverBlocked == FALSE

\* The guard of startPacketMonitoring against an established connection.
MonitorBlocked == connected_to_wifi

\* Fault models: a range check that lost its upper or its lower limit.
ValidChannelNoUpper(c) == c >= MIN_CHANNEL
ValidChannelNoLower(c) == c <= MAX_CHANNEL

\* The range check on a channel (processCommand, startPacketMonitoring,
\* changeChannel).
ValidChannel(c) == c >= MIN_CHANNEL /\ c <= MAX_CHANNEL

\* Fault model: a start without argument that falls back to channel 1.
MonitorChannelFirst(ch) == IF ch = 0 THEN MIN_CHANNEL ELSE ch

\* if (channel == 0) channel = scanner_state.current_channel;
MonitorChannel(ch) == IF ch = 0 THEN current_channel ELSE ch

\* startPacketMonitoring(ch), up to WiFi.mode(WIFI_MODE_NULL); ch = 0 is the
\* default argument.  An accepted start opens a new session for the history
\* variables report and sess.
startPacketMonitoring(ch) ==
    IF MonitorBlocked
    THEN Output("Disconnect from WiFi before starting packet monitoring.")
    ELSE LET c == MonitorChannel(ch)
         IN  IF ~ValidChannel(c)
             THEN Output("Invalid channel. Use 1-14.")
             ELSE /\ wifi_mode' = "NULL"
                  /\ link' = "down"
                  /\ channel' = c
                  /\ response' = ""
                  /\ report' = NoReport
                  /\ sess' = ZeroCounts
                  /\ pc' = "spm_448"
                  /\ UNCHANGED <<scanner_vars, registry_vars, sta_ssid, sta_password,
                                 radio_channel, promiscuous, elapsed, ssid,
                                 attempts, rd>>

\* scanner_state.packet_count = 0;
MonitorResetTotal ==
    /\ pc = "spm_448"
    /\ packet_count' = 0
    /\ pc' = "spm_449"
    /\ UNCHANGED <<scanning_active, monitoring_active, connected_to_wifi, current_channel,
                   data_packets, mgmt_packets, ctrl_packets, connected_ssid, registry_vars,
                   radio_vars, elapsed, local_vars, response, report, sess>>

\* scanner_state.data_packets = 0;
MonitorResetData ==
    /\ pc = "spm_449"
    /\ data_packets' = 0
    /\ pc' = "spm_450"
    /\ UNCHANGED <<scanning_active, monitoring_active, connected_to_wifi, current_channel,
                   packet_count, mgmt_packets, ctrl_packets, connected_ssid, registry_vars,
                   radio_vars, elapsed, local_vars, response, report, sess>>

\* scanner_state.mgmt_packets = 0;
MonitorResetMgmt ==
    /\ pc = "spm_450"
    /\ mgmt_packets' = 0
    /\ pc' = "spm_451"
    /\ UNCHANGED <<scanning_active, monitoring_active, connected_to_wifi, current_channel,
                   packet_count, data_packets, ctrl_packets, connected_ssid, registry_vars,
                   radio_vars, elapsed, local_vars, response, report, sess>>

\* scanner_state.ctrl_packets = 0; current_channel = channel;
\* esp_wifi_set_channel(channel, ...).
MonitorResetCtrl ==
    /\ pc = "spm_451"
    /\ ctrl_packets' = 0
    /\ current_channel' = channel
    /\ radio_channel' = channel
    /\ pc' = "spm_462"
    /\ UNCHANGED <<scanning_active, monitoring_active, connected_to_wifi, packet_count,
                   data_packets, mgmt_packets, connected_ssid, registry_vars, wifi_mode,
                   link, sta_ssid, sta_password, promiscuous, elapsed,
                   local_vars, response, report, sess>>

\* esp_wifi_set_promiscuous(true);
MonitorEnable ==
    /\ pc = "spm_462"
    /\ promiscuous' = TRUE
    /\ pc' = "spm_463"
    /\ UNCHANGED <<scanner_vars, registry_vars, wifi_mode, link, sta_ssid, sta_password,
                   radio_channel, elapsed, local_vars, response, report, sess>>

\* scanner_state.monitoring_active = true; the messages; then
\* updateMonitoringStatus() starts reading.
MonitorActivate ==
    /\ pc = "spm_463"
    /\ monitoring_active' = TRUE
    /\ response' = "Packet monitoring started"
    /\ \E order \in OperandOrders :
           rd' = [kind |-> "start_line", todo |-> order, vals |-> ZeroCounts]
    /\ channel' = 0
    /\ pc' = "read"
    /\ UNCHANGED <<scanning_active, connected_to_wifi, current_channel, counter_vars,
                   connected_ssid, registry_vars, radio_vars, elapsed, ssid, attempts,
                   report, sess>>

\* stopPacketMonitoring(), up to esp_wifi_set_promiscuous(false).
stopPacketMonitoring ==
    IF monitoring_active
    THEN /\ promiscuous' = FALSE
         /\ response' = ""
         /\ pc' = "stp_475"
         /\ report' = KeptReport
         /\ UNCHANGED <<scanner_vars, registry_vars, wifi_mode, link, sta_ssid,
                        sta_password, radio_channel, elapsed, local_vars,
                        sess>>
    ELSE Output("Packet monitoring is not active.")

\* scanner_state.monitoring_active = false; then the final statistics are read.
StopDeactivate ==
    /\ pc = "stp_475"
    /\ monitoring_active' = FALSE
    /\ response' = "Packet monitoring stopped."
    /\ rd' = [kind |-> "final", todo |-> StatementOrder, vals |-> ZeroCounts]
    /\ pc' = "read"
    /\ sess' = ZeroCounts
    /\ UNCHANGED <<scanning_active, connected_to_wifi, current_channel, counter_vars,
                   connected_ssid, registry_vars, radio_vars, elapsed, channel, ssid,
                   attempts, report>>

\* The frequency a report shows: the status lines and the status command print
\* 2412 + (current_channel - 1) * 5, the final statistics print none.
ReportedFrequency(kind) ==
    IF kind = "final" THEN 0 ELSE FrequencyMHz(current_channel)

\* One read of a counter for the report under construction; the last read
\* prints the report.  After the periodic line, loop() stores millis() in
\* last_status_update.
ReadCounter ==
    /\ pc = "read"
    /\ LET name == Head(rd.todo)
           vals == [rd.vals EXCEPT ![name] = CounterValue(name)]
       IN  IF Len(rd.todo) > 1
           THEN /\ rd' = [rd EXCEPT !.todo = Tail(rd.todo), !.vals = vals]
                /\ UNCHANGED <<pc, report, elapsed>>
           ELSE /\ rd' = NoRead
                /\ report' = [kind |-> rd.kind, vals |-> vals,
                              freq |-> ReportedFrequency(rd.kind)]
                /\ elapsed' = IF rd.kind = "periodic_line" THEN 0 ELSE elapsed
                /\ pc' = "loop"
    /\ UNCHANGED <<scanner_vars, registry_vars, radio_vars, channel, ssid, attempts,
                   response, sess>>

\* showNetworks().
showNetworks ==
    Output(IF network_count = 0 THEN "No networks found. Run 'scan' first."
                                 ELSE "Previously Scanned Networks:")

\* Fault model: a status command that clears the counters it has shown.
showStatusResetting ==
    /\ response' = "ESP32-C6 WiFi Scanner Status:"
    /\ packet_count' = 0
    /\ data_packets' = 0
    /\ mgmt_packets' = 0
    /\ ctrl_packets' = 0
    /\ report' = KeptReport
    /\ UNCHANGED <<scanning_active, monitoring_active, connected_to_wifi, current_channel,
                   connected_ssid, registry_vars, radio_vars, elapsed, pc, local_vars,
                   sess>>

\* showStatus(): the counters are read only while monitoring.
showStatus ==
    IF monitoring_active
    THEN /\ response' = "ESP32-C6 WiFi Scanner Status:"
         /\ rd' = [kind |-> "status", todo |-> StatementOrder, vals |-> ZeroCounts]
         /\ pc' = "read"
         /\ report' = KeptReport
         /\ UNCHANGED <<scanner_vars, registry_vars, radio_vars, elapsed, channel, ssid,
                        attempts, sess>>
    ELSE Output("ESP32-C6 WiFi Scanner Status:")

\* Fault model: a channel change that never retunes the radio.
changeChannelStoreOnly(c) ==
    IF ~ValidChannel(c)
    THEN Output("Invalid channel. Use 1-14 (2.4GHz ISM band).")
    ELSE /\ current_channel' = c
         /\ response' = IF monitoring_active THEN "Changed to channel"
                                             ELSE "Channel set"
         /\ report' = KeptReport
         /\ UNCHANGED <<scanning_active, monitoring_active, connected_to_wifi, counter_vars,
                        connected_ssid, registry_vars, radio_vars, elapsed, pc, local_vars,
                        sess>>

\* changeChannel(c).
changeChannel(c) ==
    IF ~ValidChannel(c)
    THEN Output("Invalid channel. Use 1-14 (2.4GHz ISM band).")
    ELSE /\ current_channel' = c
         /\ radio_channel' = IF monitoring_active THEN c ELSE radio_channel
         /\ response' = IF monitoring_active THEN "Changed to channel"
                                             ELSE "Channel set"
         /\ report' = KeptReport
         /\ UNCHANGED <<scanning_active, monitoring_active, connected_to_wifi, counter_vars,
                        connected_ssid, registry_vars, wifi_mode, link, sta_ssid,
                        sta_password, promiscuous, elapsed, pc, local_vars,
                        sess>>

\* ESP.restart(): the process image starts over; nothing persists.
Restart ==
    /\ scanning_active' = FALSE
    /\ monitoring_active' = FALSE
    /\ connected_to_wifi' = FALSE
    /\ current_channel' = 1
    /\ packet_count' = 0
    /\ data_packets' = 0
    /\ mgmt_packets' = 0
    /\ ctrl_packets' = 0
    /\ connected_ssid' = <<>>
    /\ detected_networks' = [i \in 0..(MAX_NETWORKS - 1) |-> 0]
    /\ network_count' = 0
    /\ wifi_mode' = "NULL"
    /\ link' = "down"
    /\ sta_ssid' = <<>>
    /\ sta_password' = <<>>
    /\ radio_channel' = 1
    /\ promiscuous' = FALSE
    /\ elapsed' = SETUP_DELAY_MS
    /\ pc' = "loop"
    /\ channel' = 0
    /\ ssid' = <<>>
    /\ attempts' = 0
    /\ rd' = NoRead
    /\ response' = "banner"
    /\ report' = NoReport
    /\ sess' = ZeroCounts

(***************************************************************************)
(* Command dispatcher                                                      *)
(***************************************************************************)
\* The branch of the if / else-if chain of processCommand that a trimmed,
\* lower-cased command takes.
CommandKind(cmd) ==
    IF cmd = W_help \/ cmd = W_h THEN "help"
    ELSE IF cmd = W_scan \/ cmd = W_s THEN "scan"
    ELSE IF StartsWith(cmd, P_connect_) THEN "connect"
    ELSE IF cmd = W_disconnect \/ cmd = W_dc THEN "disconnect"
    ELSE IF StartsWith(cmd, P_monitor_) THEN "monitor_n"
    ELSE IF cmd = W_monitor \/ cmd = W_m THEN "monitor"
    ELSE IF cmd = W_stop \/ cmd = W_x THEN "stop"
    ELSE IF cmd = W_networks \/ cmd = W_n THEN "networks"
    ELSE IF cmd = W_status \/ cmd = W_st THEN "status"
    ELSE IF StartsWith(cmd, P_channel_) THEN "channel"
    ELSE IF cmd = W_clear \/ cmd = W_cls THEN "clear"
    ELSE IF cmd = W_info \/ cmd = W_i THEN "info"
    ELSE IF cmd = W_export \/ cmd = W_e THEN "export"
    ELSE IF cmd = W_reset \/ cmd = W_r THEN "reset"
    ELSE IF Len(cmd) > 0 THEN "unknown"
    ELSE "empty"

\* cmd.toLowerCase(); cmd.trim(); at the head of processCommand.
Normalize(line) == Trim(ToLowerCase(line))

\* The argument of "monitor <n>" and "channel <n>": cmd.substring(8).toInt().
ChannelArg(cmd) == ToInt(SubstringFrom(cmd, 8))

\* The parameters of "connect <ssid> <password>".
ConnectParams(cmd) == SubstringFrom(cmd, 8)
ConnectWellFormed(cmd) == IndexOfSpace(ConnectParams(cmd)) > 0
ConnectSsid(cmd) == Substring(ConnectParams(cmd), 0, IndexOfSpace(ConnectParams(cmd)))
ConnectPassword(cmd) ==
    SubstringFrom(ConnectParams(cmd), IndexOfSpace(ConnectParams(cmd)) + 1)

\* What loop() and the head of processCommand make of one input line: the
\* branch taken and the arguments extracted.  loop() trims the line and calls
\* processCommand only if something is left; processCommand lower-cases and
\* trims again.
ParseLine(line) ==
    LET cmd  == Normalize(Trim(line))
        kind == CommandKind(cmd)
    IN  [kind       |-> kind,
         arg        |-> IF kind \in {"monitor_n", "channel"} THEN ChannelArg(cmd) ELSE 0,
         wellformed |-> IF kind = "connect" THEN ConnectWellFormed(cmd) ELSE TRUE,
         ssid       |-> IF kind = "connect" /\ ConnectWellFormed(cmd)
                        THEN ConnectSsid(cmd) ELSE <<>>,
         password   |-> IF kind = "connect" /\ ConnectWellFormed(cmd)
                        THEN ConnectPassword(cmd) ELSE <<>>]

\* The parsed forms of the input lines.
Commands == {ParseLine(line) : line \in Lines}

\* The dispatch of processCommand on a parsed command.
processCommand(c) ==
    CASE c.kind = "help" -> Output("Available Commands:")
      [] c.kind = "scan" -> \E n \in ScanCounts : startNetworkScan(n)
      [] c.kind = "connect" ->
             IF c.wellformed
             THEN connectToWiFi(c.ssid, c.password)
             ELSE Output("Usage: connect <ssid> <password>")
      [] c.kind = "disconnect" -> disconnectWiFi
      [] c.kind = "monitor_n" ->
             IF ValidChannel(c.arg)
             THEN startPacketMonitoring(c.arg)
             ELSE Output("Invalid channel. Use 1-14 or 0 for current channel.")
      [] c.kind = "monitor" -> startPacketMonitoring(0)
      [] c.kind = "stop" -> stopPacketMonitoring
      [] c.kind = "networks" -> showNetworks
      [] c.kind = "status" -> showStatus
      [] c.kind = "channel" -> changeChannel(c.arg)
      [] c.kind = "clear" -> Output("banner")
      [] c.kind = "info" -> Output("ESP32-C6 System Information:")
      [] c.kind = "export" -> Output("Exporting scan results...")
      [] c.kind = "reset" -> Restart
      [] c.kind = "unknown" -> Output("Unknown command")
      [] c.kind = "empty" -> UNCHANGED vars

(***************************************************************************)
(* loop()                                                                  *)
(***************************************************************************)
\* A terminated line has arrived on Serial and loop() hands it on.
LoopReadLine(c) ==
    /\ pc = "loop"
    /\ processCommand(c)

\* Fault model: a status line that is not throttled.
StatusAlwaysDue == TRUE

\* millis() - last_status_update > 2000
StatusDue == elapsed > STATUS_INTERVAL_MS

\* The throttled status line of loop(): updateMonitoringStatus() starts reading.
LoopStatus ==
    /\ pc = "loop"
    /\ monitoring_active
    /\ StatusDue
    /\ \E order \in OperandOrders :
           rd' = [kind |-> "periodic_line", todo |-> order, vals |-> ZeroCounts]
    /\ response' = "status line"
    /\ pc' = "read"
    /\ report' = KeptReport
    /\ UNCHANGED <<scanner_vars, registry_vars, radio_vars, elapsed, channel, ssid,
                   attempts, sess>>

(***************************************************************************)
(* Specification                                                           *)
(***************************************************************************)
Next ==
    \/ \E c \in Commands : LoopReadLine(c)
    \/ LoopStatus
    \/ ConnectPoll
    \/ ConnectFinish
    \/ MonitorResetTotal
    \/ MonitorResetData
    \/ MonitorResetMgmt
    \/ MonitorResetCtrl
    \/ MonitorEnable
    \/ MonitorActivate
    \/ StopDeactivate
    \/ ReadCounter
    \/ \E type \in FrameTypes : Deliver(type)
    \/ RadioJoin
    \/ RadioDrop
    \/ Tick

Spec == Init /\ [][Next]_vars

\* The steps by which the foreground carries on with the command or status
\* update it is in (pc # "loop"); exactly one of them is enabled there.
ForegroundStep ==
    \/ ConnectPoll
    \/ ConnectFinish
    \/ MonitorResetTotal
    \/ MonitorResetData
    \/ MonitorResetMgmt
    \/ MonitorResetCtrl
    \/ MonitorEnable
    \/ MonitorActivate
    \/ StopDeactivate
    \/ ReadCounter

\* The loop task is scheduled again whenever the driver task has handled its
\* frames, and delay() returns: the foreground keeps taking its steps.
FairSpec == Spec /\ WF_vars(ForegroundStep)

\* loop() runs on: the foreground keeps taking its steps, millis() advances,
\* and every pass of loop() comes to the status check after the input that was
\* waiting has been handled, so a status line that is due again and again is
\* started.
LiveSpec == Spec /\ WF_vars(ForegroundStep) /\ WF_vars(Tick) /\ SF_vars(LoopStatus)


(***************************************************************************)
(* Properties                                                              *)
(***************************************************************************)
\* C1: in every reachable state monitoring_active and connected_to_wifi are
\* not both true, and the Scanning flag is never observable as set.
C1_ExactlyOneMode ==
    /\ ~(monitoring_active /\ connected_to_wifi)
    /\ ~scanning_active

\* A connected session in which a start of monitoring has just been refused.
C1_Witness ==
    /\ connected_to_wifi
    /\ ~monitoring_active
    /\ response = "Disconnect from WiFi before starting packet monitoring."

\* C2: a scan or a connect issued while Monitoring, and a monitor (with or
\* without channel) issued while Connected, is rejected with its message and
\* leaves the mode flags, the stored channel, the connected SSID, the four
\* counters, the registry (contents and size) and the radio as they were, and
\* starts no operation.
C2_GuardRejectionsChangeNothing ==
    [][pc = "loop" => \A c \in Commands :
          ( /\ \/ c.kind = "scan" /\ monitoring_active
               \/ c.kind = "connect" /\ c.wellformed /\ monitoring_active
               \/ c.kind \in {"monitor", "monitor_n"} /\ connected_to_wifi
            /\ LoopReadLine(c) )
          => /\ UNCHANGED <<scanner_vars, registry_vars, radio_vars, pc>>
             /\ response' =
                  IF c.kind = "scan"
                  THEN "Stop packet monitoring before scanning networks."
                  ELSE IF c.kind = "connect"
                  THEN "Stop packet monitoring before connecting to WiFi."
                  ELSE IF c.kind = "monitor_n" /\ (c.arg < 1 \/ c.arg > 14)
                  THEN "Invalid channel. Use 1-14 or 0 for current channel."
                  ELSE "Disconnect from WiFi before starting packet monitoring."
      ]_vars

\* A capture that has counted a frame and has just refused a connect.
C2_Witness ==
    /\ monitoring_active
    /\ packet_count > 0
    /\ response = "Stop packet monitoring before connecting to WiFi."

\* C3: an accepted start of monitoring on channel c ends in Monitoring with
\* stored channel c; the first frame the callback counts after the start was
\* accepted finds all four counters at zero; and the status line the start
\* emits shows the frequency of c (2437 MHz for 6) and, when no frame has been
\* counted by then, all-zero counters.
C3_StartResetsBeforeFirstFrame ==
    [][ /\ MonitorActivate =>
              /\ monitoring_active'
              /\ current_channel' = channel
              /\ channel >= 1 /\ channel <= 14
        /\ \A type \in FrameTypes :
              (Deliver(type) /\ monitoring_active /\ sess.total = 0)
              => Counters = ZeroCounts
        /\ (pc = "read" /\ rd.kind = "start_line" /\ pc' = "loop") =>
              /\ report'.kind = "start_line"
              /\ report'.freq = 2412 + (current_channel - 1) * 5
              /\ current_channel = 6 => report'.freq = 2437
              /\ sess = ZeroCounts => report'.vals = ZeroCounts
      ]_vars

\* C4: every set of counter values the foreground has read for a report
\* (status line, status command, final statistics) satisfies
\* management + data + control <= total.
C4_ObservedSumWithinTotal ==
    report.kind # "none" =>
        report.vals.mgmt + report.vals.data + report.vals.ctrl <= report.vals.total

\* C5: across every step that begins and ends with monitoring active, none of
\* the four counters decreases.
C5_CountersMonotoneWhileMonitoring ==
    [][(monitoring_active /\ monitoring_active') =>
          /\ packet_count' >= packet_count
          /\ mgmt_packets' >= mgmt_packets
          /\ data_packets' >= data_packets
          /\ ctrl_packets' >= ctrl_packets
      ]_vars

\* C6: from the stop of monitoring until the next accepted start, the four
\* counters hold exactly the values read for the final statistics: those already
\* read while the statistics are being printed, and all four once they are
\* printed, whatever frames are delivered and commands run in between.
C6_CountersFrozenAfterStop ==
    /\ (pc = "read" /\ rd.kind = "final") =>
          \A name \in {"total", "mgmt", "data", "ctrl"} :
              (\A i \in 1..Len(rd.todo) : rd.todo[i] # name)
              => rd.vals[name] = CounterValue(name)
    /\ report.kind = "final" =>
          /\ ~monitoring_active
          /\ report.vals = Counters

\* Final statistics with a counted frame, and a later command already run.
C6_Witness ==
    /\ report.kind = "final"
    /\ report.vals.total > 0
    /\ response = "Channel set"

\* C7: a frame delivered while monitoring adds one to total and one to the
\* counter of its type tag (to none for any other tag) and changes nothing
\* else; and whenever the foreground is between commands while monitoring, the
\* counters equal the numbers of frames counted since the start was accepted.
C7_FramesCountedExactly ==
    /\ [][\A type \in FrameTypes :
             (Deliver(type) /\ monitoring_active) =>
                 /\ packet_count' = packet_count + 1
                 /\ mgmt_packets' = mgmt_packets + (IF type = "WIFI_PKT_MGMT" THEN 1 ELSE 0)
                 /\ data_packets' = data_packets + (IF type = "WIFI_PKT_DATA" THEN 1 ELSE 0)
                 /\ ctrl_packets' = ctrl_packets + (IF type = "WIFI_PKT_CTRL" THEN 1 ELSE 0)
                 /\ UNCHANGED <<scanning_active, monitoring_active, connected_to_wifi,
                                current_channel, connected_ssid, registry_vars>>
         ]_vars
    /\ []((monitoring_active /\ pc = "loop") => Counters = sess)

\* C8: in every reachable state the stored channel is between 1 and 14.
C8_ChannelInRange ==
    /\ current_channel >= 1
    /\ current_channel <= 14

\* A stored channel set by a command, and an out-of-range change just refused.
C8_Witness ==
    /\ current_channel = 6
    /\ response = "Invalid channel. Use 1-14 (2.4GHz ISM band)."

C10_FailedConnectLeavesIdle ==
    [][(ConnectFinish /\ attempts = 20 /\ response' = "Connection failed!") =>
          /\ Mode' = "Idle"
          /\ connected_ssid' = <<>>
          /\ link' # "up"
      ]_vars

\* C11: every connect terminates: a status poll of the retry loop that fails
\* is at most the 21st of its connect (20 retries, then the poll on which the
\* budget ends the loop), and whenever the foreground is inside a command it
\* eventually is back in loop() accepting input.
C11_ConnectTerminates ==
    /\ [][(ConnectPoll /\ link # "up") => attempts + 1 <= 21]_vars
    /\ (pc # "loop") ~> (pc = "loop")

\* The retry loop has just been ended by its budget, the radio not connected.
C11_Witness ==
    /\ pc = "ctw_391"
    /\ attempts = 20
    /\ link # "up"

\* C11 as stated: a status poll of the retry loop that fails is at most the
\* 20th of its connect, and the foreground always returns to accepting input.
C11_AtMostTwentyFailedPolls ==
    /\ [][(ConnectPoll /\ link # "up") => attempts + 1 <= 20]_vars
    /\ (pc # "loop") ~> (pc = "loop")

\* C12: in every reachable state the registry size is between 0 and 50,
\* whatever number a scan reports (more than 50, none, or a failure code).
C12_RegistrySizeWithinCapacity ==
    /\ network_count >= 0
    /\ network_count <= 50

\* A scan that reported more networks than the registry holds has filled it.
C12_Witness ==
    /\ network_count = 50
    /\ detected_networks[49] # 0
    /\ response = "Scan complete."

\* C13: an accepted scan whose sweep found n networks leaves a registry of
\* size min(n, 50) (0 for a sweep that found none or failed) whose entries are,
\* in order, the first networks of the sweep's list; nothing an earlier scan
\* recorded is among them.  (An accepted scan answers with the headline of its
\* result.)
C13_ScanReplacesRegistry ==
    [][(pc = "loop" /\ ~monitoring_active) =>
          \A n \in ScanCounts :
              ( /\ response' = (IF n = 0 THEN "No networks found." ELSE "Scan complete.")
                /\ startNetworkScan(n) ) =>
                  /\ network_count' = (IF n < 0 THEN 0 ELSE IF n > 50 THEN 50 ELSE n)
                  /\ \A i \in 0..(network_count' - 1) :
                        LET net == NetworkInfo(detected_networks'[i])
                            ap  == AccessPoint(ScanEntry(i, n))
                        IN  /\ net.ssid = ap.ssid
                            /\ net.bssid = ap.bssid
                            /\ net.channel = ap.channel
                            /\ net.rssi = ap.rssi
                            /\ net.encryption = ap.encryption
      ]_vars

\* A registry refilled by a small sweep after a larger one: the slot behind its
\* last entry still holds a record of the earlier scan.
C13_Witness ==
    /\ network_count = FewNetworks
    /\ detected_networks[FewNetworks] # 0
    /\ response = "Scan complete."

\* C14: disconnect issued when the mode is not Connected, and stop issued when
\* the mode is not Monitoring, print their informational message and leave the
\* mode flags, the stored channel, the connected SSID, the counters, the
\* registry and the radio unchanged, and start no operation.
C14_NoOpCommandsChangeNothing ==
    [][pc = "loop" => \A c \in Commands :
          ( /\ \/ c.kind = "disconnect" /\ Mode # "Connected"
               \/ c.kind = "stop" /\ Mode # "Monitoring"
            /\ LoopReadLine(c) )
          => /\ UNCHANGED <<scanner_vars, registry_vars, radio_vars, pc>>
             /\ response' = IF c.kind = "disconnect"
                            THEN "Not connected to any WiFi network."
                            ELSE "Packet monitoring is not active."
      ]_vars

\* A capture that has counted a frame and has just answered a disconnect.
C14_Witness ==
    /\ monitoring_active
    /\ packet_count > 0
    /\ response = "Not connected to any WiFi network."

\* C15: every connect line of malformed shape (the bare word connect, connect
\* with one token, connect with an empty first token) prints the usage message
\* and leaves the mode flags, the stored channel, the connected SSID, the
\* counters, the registry and the radio unchanged, and starts no operation.
C15_MalformedConnectPrintsUsage ==
    [][pc = "loop" => \A line \in Lines :
          LET cmd == Normalize(Trim(line))
          IN  ( /\ \/ cmd \o <<" ">> = P_connect_
                   \/ StartsWith(cmd, P_connect_) /\ ~ConnectWellFormed(cmd)
                /\ LoopReadLine(ParseLine(line)) )
              => /\ response' = "Usage: connect <ssid> <password>"
                 /\ UNCHANGED <<scanner_vars, registry_vars, radio_vars, pc>>
      ]_vars

\* C16: a line that matches no command is answered with the unknown-command
\* response, and it and help, networks, status, info, export and clear leave
\* the mode flags, the stored channel, the connected SSID, the four counters and
\* the registry unchanged, as do the counter reads the status command makes.
C16_ReportingCommandsChangeNothing ==
    [][ /\ pc = "loop" => \A c \in Commands :
              ( /\ c.kind \in {"unknown", "help", "networks", "status", "info",
                               "export", "clear"}
                /\ LoopReadLine(c) )
              => /\ UNCHANGED <<scanner_vars, registry_vars>>
                 /\ c.kind = "unknown" => response' = "Unknown command"
        /\ (ReadCounter /\ rd.kind = "status") => UNCHANGED <<scanner_vars, registry_vars>>
      ]_vars

\* A capture that has counted a frame and has just answered an unknown line.
C16_Witness ==
    /\ monitoring_active
    /\ packet_count > 0
    /\ response = "Unknown command"

\* C17: in Idle, monitor 15 is answered with "Invalid channel. Use 1-14." and
\* the mode stays Idle.
C17_MonitorFifteenMessage ==
    [][pc = "loop" => \A c \in Commands :
          ( /\ c.kind = "monitor_n"
            /\ c.arg = 15
            /\ Mode = "Idle"
            /\ LoopReadLine(c) )
          => /\ response' = "Invalid channel. Use 1-14."
             /\ Mode' = "Idle"
      ]_vars

\* C18: whenever the foreground writes zero to one of the four counters, frame
\* counting is off: monitoring is not active and the radio is not delivering
\* frames.
C18_ResetsNeverRaceCallback ==
    [][(MonitorResetTotal \/ MonitorResetData \/ MonitorResetMgmt \/ MonitorResetCtrl)
          => (~monitoring_active /\ ~promiscuous)
      ]_vars

\* C19: after every accepted scan, whatever mode it was issued from, the mode
\* is Idle.
C19_ScanEndsInIdle ==
    [][(pc = "loop" /\ ~monitoring_active) =>
          \A n \in ScanCounts :
              ( /\ response' = (IF n = 0 THEN "No networks found." ELSE "Scan complete.")
                /\ startNetworkScan(n) ) => Mode' = "Idle"
      ]_vars

\* C20: for every accepted connect <ssid> <password> line the SSID and the
\* password handed to WiFi.begin are the second and third token of the line as
\* typed, and a connect that succeeds ends in Connected with connected_ssid
\* equal to the SSID handed to WiFi.begin.
C20_CredentialsPassedVerbatim ==
    [][ /\ (pc = "loop" /\ pc' = "ctw_385") => \A line \in Lines :
              ( /\ StartsWith(Normalize(Trim(line)), P_connect_)
                /\ ConnectWellFormed(Normalize(Trim(line)))
                /\ LoopReadLine(ParseLine(line)) )
              => /\ sta_ssid' = ConnectSsid(Trim(line))
                 /\ sta_password' = ConnectPassword(Trim(line))
        /\ (ConnectFinish /\ response' = "Connection successful!") =>
              /\ Mode' = "Connected"
              /\ connected_ssid' = sta_ssid
      ]_vars

\* C21: a channel command with a value n in 1..14 sets the stored channel to n
\* in every mode, retunes the radio to n exactly when monitoring is active, and
\* leaves the mode flags, the connected SSID, the four counters, the registry
\* and the rest of the radio unchanged and starts no operation; and whenever
\* monitoring is active the radio channel equals the stored channel.
C21_ChangeChannelStoresAndRetunes ==
    /\ [][pc = "loop" => \A c \in Commands :
             ( /\ c.kind = "channel"
               /\ c.arg >= 1 /\ c.arg <= 14
               /\ LoopReadLine(c) )
             => /\ current_channel' = c.arg
                /\ radio_channel' = IF monitoring_active THEN c.arg ELSE radio_channel
                /\ UNCHANGED <<scanning_active, monitoring_active, connected_to_wifi,
                               counter_vars, connected_ssid, registry_vars, wifi_mode,
                               link, sta_ssid, sta_password, promiscuous, pc>>
         ]_vars
    /\ [](monitoring_active => radio_channel = current_channel)

\* A capture started on channel 1 that has counted a frame and has just been
\* moved to channel 6.
C21_Witness ==
    /\ monitoring_active
    /\ packet_count > 0
    /\ current_channel = 6
    /\ radio_channel = 6
    /\ response = "Changed to channel"

\* C22: a monitor command without channel that is accepted (not Connected)
\* starts on the stored channel: the start carries the stored channel through
\* its steps, tunes the radio to it and stores the same value again, and ends
\* in Monitoring on it; and the stored channel changes only by a valid channel
\* command, by an accepted start of monitoring, or by a restart.
C22_MonitorReusesStoredChannel ==
    [][ /\ pc = "loop" => \A c \in Commands :
              ( /\ c.kind = "monitor"
                /\ ~connected_to_wifi
                /\ LoopReadLine(c) )
              => /\ pc' = "spm_448"
                 /\ channel' = current_channel
                 /\ current_channel' = current_channel
        /\ pc \in {"spm_448", "spm_449", "spm_450"} =>
              UNCHANGED <<channel, current_channel, radio_channel>>
        /\ MonitorResetCtrl =>
              /\ current_channel' = channel
              /\ radio_channel' = channel
        /\ pc \in {"spm_462", "spm_463"} => UNCHANGED <<current_channel, radio_channel>>
        /\ MonitorActivate =>
              /\ monitoring_active'
              /\ radio_channel' = current_channel'
        /\ current_channel' # current_channel =>
              \/ MonitorResetCtrl
              \/ Restart
              \/ \E c \in Commands :
                    /\ c.kind = "channel"
                    /\ c.arg >= 1 /\ c.arg <= 14
                    /\ current_channel' = c.arg
                    /\ LoopReadLine(c)
      ]_vars

\* A start has been accepted on channel 6, which a channel command had stored
\* while the radio stayed on channel 1.
C22_Witness ==
    /\ pc = "spm_448"
    /\ channel = 6
    /\ current_channel = 6
    /\ radio_channel = 1
    /\ ~monitoring_active

\* C23: within one run of the firmware the registry (contents and size) is
\* changed by no step but an accepted scan: connect, disconnect, monitor, stop,
\* channel, every continuation of them and every frame delivery leave it as it
\* is.  Only the restart of the process image, which keeps nothing, empties it.
C23_RegistryPersists ==
    [][registry_vars' # registry_vars =>
          \/ Restart
          \/ /\ pc = "loop"
             /\ ~monitoring_active
             /\ \E n \in ScanCounts : startNetworkScan(n)
      ]_vars

\* A registry filled by a scan, in a capture that has counted a frame, after a
\* connect has been made.
C23_Witness ==
    /\ network_count = FewNetworks
    /\ detected_networks[0] # 0
    /\ monitoring_active
    /\ packet_count > 0
    /\ sta_ssid # <<>>

\* C24: in every reachable state connected_ssid is non-empty only in mode
\* Connected (connected_to_wifi true, monitoring not active), and an accepted
\* disconnect clears it.
C24_ConnectedSsidOnlyWhenConnected ==
    /\ [](connected_ssid # <<>> => (connected_to_wifi /\ Mode = "Connected"))
    /\ [][pc = "loop" => \A c \in Commands :
             ( /\ c.kind = "disconnect"
               /\ connected_to_wifi
               /\ LoopReadLine(c) )
             => /\ connected_ssid' = <<>>
                /\ ~connected_to_wifi'
         ]_vars

\* A connection that was established has just been given up.
C24_Witness ==
    /\ ~connected_to_wifi
    /\ connected_ssid = <<>>
    /\ sta_ssid # <<>>
    /\ response = "Disconnected from WiFi network."

\* C25: a periodic status line is begun only by loop(), only while monitoring
\* is active and only when more than 2000 ms have passed on the clock since the
\* last one was printed (printing it restarts the measure, which only the clock
\* advances); monitoring is active all the while it is being built; and from
\* every state of loop() with monitoring active, a further periodic status line
\* is begun unless monitoring ends.
C25_PeriodicStatusLine ==
    /\ [][ /\ (rd'.kind = "periodic_line" /\ rd.kind # "periodic_line") =>
                 /\ LoopStatus
                 /\ monitoring_active
                 /\ elapsed > 2000
           /\ (rd.kind = "periodic_line" /\ rd'.kind # "periodic_line") =>
                 /\ ReadCounter
                 /\ report'.kind = "periodic_line"
                 /\ elapsed' = 0
           /\ elapsed' > elapsed => (Tick \/ Restart)
         ]_vars
    /\ [](rd.kind = "periodic_line" => monitoring_active)
    /\ (monitoring_active /\ pc = "loop")
          ~> (~monitoring_active \/ rd.kind = "periodic_line")

\* A periodic status line showing a counted frame has just been printed.
C25_Witness ==
    /\ monitoring_active
    /\ report.kind = "periodic_line"
    /\ report.vals.total > 0
    /\ elapsed = 0
====
